---- MODULE Spec2Model ----
(***************************************************************************)
(* Model of the network topology diagram of the website                    *)
(* (components/tech/Network: toTree, NetworkNode, NetworkEdge, toCounts),  *)
(* of the live-chat redirect route (app/live/youtube/chat/route.ts) and of *)
(* the Twitch channel list of the admin panel (ChannelConfig).             *)
(*                                                                         *)
(* JavaScript optional values are modelled as sequences of length 0 or 1:  *)
(* <<>> is `undefined` (the property is absent), <<v>> is the value v.     *)
(***************************************************************************)
EXTENDS Integers, Sequences, FiniteSets, TLC

VARIABLES
    network,    \* the device tree of @/data/tech/network (static input)
    tree,       \* tree.data = toTree(network), <<>> until the module is evaluated
    counts,     \* toCounts(network), <<>> until the module is evaluated
    stats,      \* the module-level `stats` summary, <<>> until evaluated
    nodeRender, \* the last NetworkNode render: <<>> or <<[id, data, isConnectable, view]>>
    edge,       \* the NetworkEdge instance: <<>> or <<[source, target, view]>>
    hovered,    \* useState(false) of the edge instance
    focused,    \* useState(false) of the edge instance
    cleanup,    \* cleanup.current: <<>> (null) or <<[parent, closure, setTabIndex]>>
    dom,        \* per container element: its tabindex attribute and event listeners
    lastRef,    \* history: the last ref-callback invocation, <<kind, element>>
    calls,      \* route.ts: per request, where GET stands and what it returned
    channels,   \* ChannelConfig: the getChannels query [status, data, fetching]
    server,     \* the channel ids the server holds
    pending,    \* per channel id, the deleteChannel mutations in flight
    started,    \* history: the number of deleteChannel mutations started
    settled,    \* history: the number of deleteChannel mutations settled
    refetches,  \* history: the number of channels.refetch() calls
    errorMessage \* useState<string | null>(null): <<>> is null

moduleVars == <<network, tree, counts, stats>>

edgeVars == <<edge, hovered, focused, cleanup, dom, lastRef>>

routeVars == <<calls>>

adminVars == <<channels, server, pending, started, settled, refetches, errorMessage>>

siteVars == <<routeVars, adminVars>>

diagramVars == <<moduleVars, nodeRender, edgeVars>>

vars == <<network, tree, counts, stats, nodeRender, edge, hovered, focused, cleanup, dom, lastRef,
          calls, channels, server, pending, started, settled, refetches, errorMessage>>

----------------------------------------------------------------------------
(* Bounds of the model *)

\* The largest number of devices (roots and nested) of an input device tree.
MaxDevices == 3

\* The number of GET requests the route serves.
MaxRequests == 3

\* The largest number of deleteChannel mutations started.
MaxDeletes == 3

----------------------------------------------------------------------------
(* Static tables of the source *)

\* Object.keys(nodeTypes): the declaration order of the device types.
NodeTypeKeys ==
    << "switch", "converter", "accessPoint", "camera", "microphone",
       "speaker", "interface", "server", "controlunit" >>

NodeTypeSet == { NodeTypeKeys[i] : i \in 1..Len(NodeTypeKeys) }

nodeTypes ==
    [ switch      |-> [ container |-> "border-blue-700", stats |-> TRUE,
                        eyebrow |-> [ name |-> "Network Switch", color |-> "text-blue-700" ] ],
      converter   |-> [ container |-> "border-blue-700 border-dashed", stats |-> FALSE,
                        eyebrow |-> [ name |-> "Media Converter", color |-> "text-blue-700" ] ],
      accessPoint |-> [ container |-> "border-blue-400", stats |-> TRUE,
                        eyebrow |-> [ name |-> "WiFi Access Point", color |-> "text-blue-400" ] ],
      camera      |-> [ container |-> "border-green-700", stats |-> TRUE,
                        eyebrow |-> [ name |-> "Camera", color |-> "text-green-700" ] ],
      microphone  |-> [ container |-> "border-green-400", stats |-> TRUE,
                        eyebrow |-> [ name |-> "Microphone", color |-> "text-green-400" ] ],
      speaker     |-> [ container |-> "border-green-400", stats |-> FALSE,
                        eyebrow |-> [ name |-> "Speaker", color |-> "text-green-400" ] ],
      interface   |-> [ container |-> "border-green-400", stats |-> FALSE,
                        eyebrow |-> [ name |-> "Audio I/O Interface", color |-> "text-green-400" ] ],
      server      |-> [ container |-> "border-yellow-700", stats |-> FALSE,
                        eyebrow |-> [ name |-> "Server", color |-> "text-yellow-700" ] ],
      controlunit |-> [ container |-> "border-red-700", stats |-> FALSE,
                        eyebrow |-> [ name |-> "Camera Control Unit", color |-> "text-red-700" ] ] ]

\* The connection types; stroke.dash is optional (ethernet has none).
edgeTypes ==
    [ ethernet |-> [ name |-> "Ethernet", stroke |-> [ color |-> "stroke-blue-700", dash |-> <<>> ] ],
      fiber    |-> [ name |-> "Fiber", stroke |-> [ color |-> "stroke-blue-700", dash |-> <<"8 8">> ] ],
      wifi     |-> [ name |-> "WiFi", stroke |-> [ color |-> "stroke-blue-400", dash |-> <<"4 8">> ] ],
      cloud    |-> [ name |-> "Cloud", stroke |-> [ color |-> "stroke-yellow-700", dash |-> <<"4 8">> ] ],
      coax     |-> [ name |-> "Coax", stroke |-> [ color |-> "stroke-red-700", dash |-> <<"16 8">> ] ] ]

----------------------------------------------------------------------------
(* The input: device trees *)

\* The devices an input tree is built from: name, type, model and the
\* optional url.  "Core" and "core" differ only in case; "Cam 1" occurs with
\* two types; the url is absent, empty or set.
DevicePool ==
    { [ name |-> "Core",  type |-> "switch",    model |-> "CRS328", url |-> <<>> ],
      [ name |-> "core",  type |-> "switch",    model |-> "CRS328", url |-> <<"https://mikrotik.com/product/crs328">> ],
      [ name |-> "Cam 1", type |-> "camera",    model |-> "Q6135",  url |-> <<"">> ],
      [ name |-> "Cam 1", type |-> "converter", model |-> "MC220",  url |-> <<>> ] }

\* The connection types the nested devices of an input tree use.
ConnectionPool == { "ethernet", "fiber" }

\* toTree and toCounts read no connection: their inputs use one.
TreeConnectionPool == { "ethernet" }

\* A device record: a NetworkItem (connection = <<>>) or a NestedNetworkItem
\* (connection = <<[type |-> c]>>); links is absent (<<>>) or <<list>>.
Item(d, connection, links) ==
    [ name |-> d.name, type |-> d.type, model |-> d.model, url |-> d.url,
      connection |-> connection, links |-> links ]

\* The shape of a tree of n devices numbered 1..n parents first (depth first):
\* parent[i] is the parent of device i, 0 for a root.  Device i hangs below
\* device i - 1, below one of its ancestors, or is a root.
RECURSIVE IsAncestorOrSelf(_, _, _)
IsAncestorOrSelf(parent, a, i) ==
    \/ a = i
    \/ (i # 0 /\ IsAncestorOrSelf(parent, a, parent[i]))

TreeShapes(n) ==
    { parent \in [ 1..n -> 0..(n - 1) ] :
        \A i \in 1..n :
            /\ parent[i] < i
            /\ i > 1 => IsAncestorOrSelf(parent, parent[i], i - 1) }

RECURSIVE Ascending(_)
Ascending(S) ==
    IF S = {} THEN <<>>
    ELSE LET least == CHOOSE x \in S : \A y \in S : x <= y
         IN  << least >> \o Ascending(S \ { least })

\* The list of the devices below device i (below the root list for i = 0).
\* Root devices carry no connection, nested devices carry one; a device
\* without children has no links property (bare) or an empty one.
RECURSIVE ItemsBelow(_, _, _, _, _)
ItemsBelow(i, parent, dev, conn, bare) ==
    LET kids == Ascending({ j \in DOMAIN parent : parent[j] = i })
        ItemAt(j) ==
            Item(dev[j],
                 IF parent[j] = 0 THEN <<>> ELSE << [ type |-> conn[j] ] >>,
                 IF \E k \in DOMAIN parent : parent[k] = j
                 THEN << ItemsBelow(j, parent, dev, conn, bare) >>
                 ELSE IF bare[j] THEN <<>> ELSE << <<>> >>)
    IN  [ k \in 1..Len(kids) |-> ItemAt(kids[k]) ]

\* items is a device tree of at most max devices, drawn from pool and conns;
\* bares says how a device without children may lack them.
IsNetwork(items, max, pool, conns, bares) ==
    \E n \in 0..max :
      \E parent \in TreeShapes(n) :
        \E dev \in [ 1..n -> pool ], conn \in [ 1..n -> conns ], bare \in [ 1..n -> bares \cup { TRUE } ] :
            /\ \A j \in 1..n :
                  /\ parent[j] = 0 => conn[j] = (CHOOSE c \in conns : TRUE)
                  /\ (\E k \in 1..n : parent[k] = j) => bare[j]
            /\ items = ItemsBelow(0, parent, dev, conn, bare)

----------------------------------------------------------------------------
(* utils/slugs and the helpers of the data module *)

\* toLowerCase() on the names and types of the model.
LowerCase(s) ==
    CASE s = "Core" -> "core"
      [] s = "Cam 1" -> "cam 1"
      [] s = "accessPoint" -> "accesspoint"
      [] OTHER -> s

\* Runs of characters outside [a-z0-9] become one "-".
Hyphenate(s) ==
    CASE s = "cam 1" -> "cam-1"
      [] OTHER -> s

\* convertToSlug(`${name}-${type}`): the two parts are normalised and stay
\* joined by the "-" of the template.
convertToSlug(name, type) ==
    Hyphenate(LowerCase(name)) \o "-" \o Hyphenate(LowerCase(type))

\* "links" in item && item.links
HasLinks(item) == item.links # <<>>

\* isNestedNetworkItem(item): the item carries a connection.
isNestedNetworkItem(item) == item.connection # <<>>

----------------------------------------------------------------------------
(* toTree *)

\* toTree without the recursion into links: every node is a leaf.
toTreeWithoutChildren(items) ==
    [ i \in 1..Len(items) |->
        [ id       |-> convertToSlug(items[i].name, items[i].type),
          type     |-> "network",
          data     |-> [ label |-> items[i].name \o " (" \o items[i].type \o ")",
                         item  |-> items[i] ],
          children |-> <<>> ] ]

\* The id from the name alone: the type is left out of the template.
NodeIdFromName(item) == convertToSlug(item.name, "")

\* id: convertToSlug(`${item.name}-${item.type}`)
NodeId(item) == convertToSlug(item.name, item.type)

\* The children are built from the links in the opposite order.
RECURSIVE toTreeChildrenReversed(_)
toTreeChildrenReversed(items) ==
    [ i \in 1..Len(items) |->
        [ id       |-> NodeId(items[i]),
          type     |-> "network",
          data     |-> [ label |-> items[i].name \o " (" \o items[i].type \o ")",
                         item  |-> items[i] ],
          children |-> IF HasLinks(items[i])
                       THEN LET kids == toTreeChildrenReversed(items[i].links[1])
                            IN  [ k \in 1..Len(kids) |-> kids[Len(kids) + 1 - k] ]
                       ELSE <<>> ] ]

RECURSIVE toTree(_)
toTree(items) ==
    [ i \in 1..Len(items) |->
        [ id       |-> NodeId(items[i]),
          type     |-> "network",
          data     |-> [ label |-> items[i].name \o " (" \o items[i].type \o ")",
                         item  |-> items[i] ],
          children |-> IF HasLinks(items[i]) THEN toTree(items[i].links[1]) ELSE <<>> ] ]

----------------------------------------------------------------------------
(* toCounts and the stats summary *)

\* A JavaScript object with string keys is the sequence of its [key, value]
\* entries in property order, the order in which the keys were first set.
HasKey(obj, key) == \E i \in 1..Len(obj) : obj[i][1] = key

\* obj[key]: the value, or undefined (<<>>).
ObjGet(obj, key) ==
    IF HasKey(obj, key)
    THEN << obj[CHOOSE i \in 1..Len(obj) : obj[i][1] = key][2] >>
    ELSE <<>>

\* The assignment moves the key to the end of the property order.
ObjSetMovesToEnd(obj, key, value) ==
    LET Others(e) == e[1] # key
    IN  Append(SelectSeq(obj, Others), << key, value >>)

\* obj[key] = value: a present key keeps its place, a new key goes last.
ObjSet(obj, key, value) ==
    IF HasKey(obj, key)
    THEN [ i \in 1..Len(obj) |-> IF obj[i][1] = key THEN << key, value >> ELSE obj[i] ]
    ELSE Append(obj, << key, value >>)

\* value || 0 of an optional number.
OrZero(opt) == IF opt = <<>> THEN 0 ELSE opt[1]

\* The reduce over typeSafeObjectKeys(nodeTypes) from key k on:
\* (acc, key) => ({ ...acc, [key]: 0 }).
RECURSIVE ZeroCountsFrom(_, _)
ZeroCountsFrom(k, acc) ==
    IF k > Len(NodeTypeKeys) THEN acc
    ELSE ZeroCountsFrom(k + 1, ObjSet(acc, NodeTypeKeys[k], 0))

\* Every type starts at 0.
ZeroCounts == ZeroCountsFrom(1, <<>>)

\* The nested counts are dropped instead of added.
MergeCountsDropped(acc, nested) == acc

\* stats[key] = value: the nested count replaces the count so far.
RECURSIVE OverwriteCountsFrom(_, _, _)
OverwriteCountsFrom(acc, nested, i) ==
    IF i > Len(nested) THEN acc
    ELSE OverwriteCountsFrom(ObjSet(acc, nested[i][1], nested[i][2]), nested, i + 1)

MergeCountsOverwritten(acc, nested) == OverwriteCountsFrom(acc, nested, 1)

\* The loop over the entries of the nested counts from entry i on.
RECURSIVE MergeCountsFrom(_, _, _)
MergeCountsFrom(acc, nested, i) ==
    IF i > Len(nested) THEN acc
    ELSE MergeCountsFrom(
             ObjSet(acc, nested[i][1], OrZero(ObjGet(acc, nested[i][1])) + nested[i][2]),
             nested, i + 1)

\* for (const [key, value] of entries(nested)) acc[key] = (acc[key] || 0) + value
MergeCounts(acc, nested) == MergeCountsFrom(acc, nested, 1)

RECURSIVE CountFrom(_, _, _)
RECURSIVE toCounts(_)
\* The for-loop of toCounts from index i on, with the accumulator acc.
CountFrom(items, i, acc) ==
    IF i > Len(items) THEN acc
    ELSE LET item == items[i]
             counted == ObjSet(acc, item.type, ObjGet(acc, item.type)[1] + 1)
             merged == IF HasLinks(item)
                       THEN MergeCounts(counted, toCounts(item.links[1]))
                       ELSE counted
         IN  CountFrom(items, i + 1, merged)

toCounts(items) == CountFrom(items, 1, ZeroCounts)

\* typeSafeObjectEntries(counts): the [key, value] entries in property order.
CountEntries(cnt) == [ i \in 1..Len(cnt) |-> << cnt[i][1], cnt[i][2] >> ]

\* .filter(([key, value]) => nodeTypes[key].stats && value)
StatsFilter(entry) == nodeTypes[entry[1]].stats /\ entry[2] # 0

StatsOf(cnt) == SelectSeq(CountEntries(cnt), StatsFilter)

----------------------------------------------------------------------------
(* The rendering surface: what components/tech/Tree hands to reactflow *)

\* Every node of a toTree result, depth first, parents before children.
RECURSIVE AllNodes(_)
AllNodes(nodes) ==
    IF nodes = <<>> THEN <<>>
    ELSE << Head(nodes) >> \o AllNodes(Head(nodes).children) \o AllNodes(Tail(nodes))

\* useNodes(): the nodes of the tree, flattened.
FlowNodes(data) == AllNodes(data)

\* useEdges(): one edge from every node to each of its children.
RECURSIVE FlowEdges(_)
FlowEdges(nodes) ==
    IF nodes = <<>> THEN <<>>
    ELSE LET n == Head(nodes)
         IN  [ k \in 1..Len(n.children) |->
                 [ source |-> n.id, target |-> n.children[k].id ] ]
             \o FlowEdges(n.children) \o FlowEdges(Tail(nodes))

----------------------------------------------------------------------------
(* NetworkNode *)

\* The scan stops as soon as either edge is found.
RECURSIVE ScanEdgesStopAtFirst(_, _, _, _, _)
ScanEdgesStopAtFirst(edges, i, id, targetEdge, sourceEdge) ==
    IF i > Len(edges)
    THEN [ targetEdge |-> targetEdge, sourceEdge |-> sourceEdge ]
    ELSE LET t == IF targetEdge = <<>> /\ edges[i].target = id
                  THEN << edges[i] >> ELSE targetEdge
             s == IF sourceEdge = <<>> /\ edges[i].source = id
                  THEN << edges[i] >> ELSE sourceEdge
         IN  IF t # <<>> \/ s # <<>>
             THEN [ targetEdge |-> t, sourceEdge |-> s ]
             ELSE ScanEdgesStopAtFirst(edges, i + 1, id, t, s)

\* The for-loop over the edges from index i on: the first edge that targets
\* the node and the first that leaves it, stopping once both are found.
RECURSIVE ScanEdges(_, _, _, _, _)
ScanEdges(edges, i, id, targetEdge, sourceEdge) ==
    IF i > Len(edges)
    THEN [ targetEdge |-> targetEdge, sourceEdge |-> sourceEdge ]
    ELSE LET t == IF targetEdge = <<>> /\ edges[i].target = id
                  THEN << edges[i] >> ELSE targetEdge
             s == IF sourceEdge = <<>> /\ edges[i].source = id
                  THEN << edges[i] >> ELSE sourceEdge
         IN  IF t # <<>> /\ s # <<>>
             THEN [ targetEdge |-> t, sourceEdge |-> s ]
             ELSE ScanEdges(edges, i + 1, id, t, s)

\* A url counts as present as soon as it is defined, the empty string too.
TruthyWhenDefined(opt) == opt # <<>>

\* JavaScript truthiness of an optional string.
Truthy(opt) == opt # <<>> /\ opt[1] # ""

\* const linkProps = data.item.url ? { href, target, rel } : {}
LinkProps(url) ==
    IF Truthy(url)
    THEN [ href |-> << url[1] >>, target |-> << "_blank" >>,
           rel |-> << "noopener noreferrer" >> ]
    ELSE [ href |-> <<>>, target |-> <<>>, rel |-> <<>> ]

\* What NetworkNode renders: the element, its attributes and its handles.
NetworkNode(id, data, isConnectable, edges) ==
    LET found == ScanEdges(edges, 1, id, <<>>, <<>>)
        linkProps == LinkProps(data.item.url)
    IN  [ element        |-> IF Truthy(data.item.url) THEN "a" ELSE "div",
          container      |-> nodeTypes[data.item.type].container,
          tabIndex       |-> -1,
          href           |-> linkProps.href,
          target         |-> linkProps.target,
          rel            |-> linkProps.rel,
          targetHandle   |-> found.targetEdge # <<>> \/ isConnectable,
          sourceHandle   |-> found.sourceEdge # <<>> \/ isConnectable,
          eyebrow        |-> nodeTypes[data.item.type].eyebrow,
          name           |-> data.item.name,
          model          |-> data.item.model,
          underline      |-> Truthy(data.item.url),
          iconExternal   |-> Truthy(data.item.url) ]

----------------------------------------------------------------------------
(* NetworkEdge: the render *)

\* The for-loop over the nodes from index i on: the first node with the
\* source id and the first with the target id, stopping once both are found.
RECURSIVE ScanNodes(_, _, _, _, _, _)
ScanNodes(nodes, i, source, target, sourceNode, targetNode) ==
    IF i > Len(nodes)
    THEN [ sourceNode |-> sourceNode, targetNode |-> targetNode ]
    ELSE LET sn == IF sourceNode = <<>> /\ nodes[i].id = source
                   THEN << nodes[i] >> ELSE sourceNode
             tn == IF targetNode = <<>> /\ nodes[i].id = target
                   THEN << nodes[i] >> ELSE targetNode
         IN  IF sn # <<>> /\ tn # <<>>
             THEN [ sourceNode |-> sn, targetNode |-> tn ]
             ELSE ScanNodes(nodes, i + 1, source, target, sn, tn)

\* The two ids are matched the wrong way round.
FindNodesSwapped(nodes, source, target) ==
    ScanNodes(nodes, 1, target, source, <<>>, <<>>)

FindNodes(nodes, source, target) ==
    ScanNodes(nodes, 1, source, target, <<>>, <<>>)

\* The error is raised only when both endpoints are missing.
MissingEndpointWhenBoth(found) == found.sourceNode = <<>> /\ found.targetNode = <<>>

\* !sourceNode || !targetNode
MissingEndpoint(found) == found.sourceNode = <<>> \/ found.targetNode = <<>>

\* The render threw: nothing is rendered.
Threw(message) == [ error |-> << message >>, rendered |-> <<>> ]

\* What the render returns: the stroke class and the opacity class of the
\* <g>, the strokeDasharray of the path and the optional floating label.
Rendered(type, hov, foc) ==
    [ error    |-> <<>>,
      rendered |-> << [ stroke |-> edgeTypes[type].stroke.color,
                        dimmed |-> ~hov /\ ~foc,
                        dash   |-> edgeTypes[type].stroke.dash,
                        label  |-> IF hov \/ foc THEN << edgeTypes[type].name >> ELSE <<>> ] >> ]

\* The target is never rejected.
InvalidTargetNever(targetNode) == FALSE

\* !isNestedNetworkItem(targetNode.data.item)
InvalidTarget(targetNode) == ~isNestedNetworkItem(targetNode.data.item)

NetworkEdge(source, target, nodes, hov, foc) ==
    LET found == FindNodes(nodes, source, target)
    IN  IF MissingEndpoint(found) THEN Threw("Missing source or target")
        \* targetNode.data of an undefined targetNode
        ELSE IF found.targetNode = <<>> THEN Threw("TypeError")
        ELSE IF InvalidTarget(found.targetNode[1]) THEN Threw("Invalid target")
        \* targetConnection.type of an undefined targetConnection
        ELSE IF found.targetNode[1].data.item.connection = <<>> THEN Threw("TypeError")
        ELSE LET targetConnection == found.targetNode[1].data.item.connection[1]
             IN  Rendered(targetConnection.type, hov, foc)

----------------------------------------------------------------------------
(* NetworkEdge: the ref callback and its listeners *)

ListenerTypes == { "mouseenter", "mouseleave", "focus", "blur" }

\* The four listeners one invocation of the ref callback creates.
Listeners(closure) == { [ type |-> t, closure |-> closure ] : t \in ListenerTypes }

\* The identity of newly created listener functions: distinct from every
\* listener function attached anywhere.
FreshClosure(d) ==
    LET used == { l.closure : l \in UNION { d[el].listeners : el \in DOMAIN d } }
    IN  CHOOSE k \in 1..(Cardinality(used) + 1) :
            k \notin used /\ \A j \in 1..(k - 1) : j \in used

\* The previous cleanup is not run.
RunCleanupSkipped(c, d) == d

\* cleanup.current(): the listeners are removed from the parent, and the
\* tabindex too when this anchor set it.
RunCleanup(c, d) ==
    IF c = <<>> THEN d
    ELSE [ d EXCEPT ![c[1].parent] =
             [ listeners |-> @.listeners \ Listeners(c[1].closure),
               tabindex  |-> IF c[1].setTabIndex THEN <<>> ELSE @.tabindex ] ]

\* The tabindex is set whether or not the parent has one.
GrantsTabIndexAlways(el, d) == TRUE

\* !parent.hasAttribute("tabindex")
GrantsTabIndex(el, d) == d[el].tabindex = <<>>

\* The ref callback with an anchor whose parent is el (node = <<>>: null, or
\* an anchor without a parent), from cleanup.current = c and the DOM d: the
\* new cleanup.current and DOM.
RefCallback(node, c, d) ==
    LET d1 == RunCleanup(c, d)
    IN  IF node # <<>> /\ node[1].parentElement # <<>>
        THEN LET parent == node[1].parentElement[1]
                 closure == FreshClosure(d1)
                 setTabIndex == GrantsTabIndex(parent, d1)
             IN  [ cleanup |-> << [ parent |-> parent, closure |-> closure,
                                    setTabIndex |-> setTabIndex ] >>,
                   dom |-> [ d1 EXCEPT ![parent] =
                               [ listeners |-> @.listeners \cup Listeners(closure),
                                 tabindex  |-> IF setTabIndex THEN << "-1" >> ELSE @.tabindex ] ] ]
        ELSE [ cleanup |-> <<>>, dom |-> d1 ]

\* mouseleave clears the focus flag as well.
ListenerEffectLeaveClearsFocus(type, hov, foc) ==
    CASE type = "mouseenter" -> [ hovered |-> TRUE, focused |-> foc ]
      [] type = "mouseleave" -> [ hovered |-> FALSE, focused |-> FALSE ]
      [] type = "focus"      -> [ hovered |-> hov, focused |-> TRUE ]
      [] type = "blur"       -> [ hovered |-> hov, focused |-> FALSE ]

\* mouseEnter, mouseLeave, focus and blur: the state after the listener ran.
ListenerEffect(type, hov, foc) ==
    CASE type = "mouseenter" -> [ hovered |-> TRUE, focused |-> foc ]
      [] type = "mouseleave" -> [ hovered |-> FALSE, focused |-> foc ]
      [] type = "focus"      -> [ hovered |-> hov, focused |-> TRUE ]
      [] type = "blur"       -> [ hovered |-> hov, focused |-> FALSE ]

----------------------------------------------------------------------------
(* Module evaluation *)

\* The container elements an edge anchor can be inserted under, with the
\* tabindex attribute the host gives them: e1 has none, e2 has "0".
Elements == { "e1", "e2" }

HostTabIndex == [ e1 |-> <<>>, e2 |-> << "0" >> ]

\* The requests the route serves.
Requests == 1..MaxRequests

\* No request has arrived.
NoRequests ==
    calls = [ r \in Requests |-> [ pc |-> "idle", outcome |-> <<>>, response |-> <<>> ] ]

\* The channel list of the admin panel is not open.
AdminClosed ==
    /\ channels = [ status |-> "closed", data |-> <<>>, fetching |-> FALSE ]
    /\ server = {}
    /\ pending = << >>
    /\ started = 0
    /\ settled = 0
    /\ refetches = 0
    /\ errorMessage = <<>>

\* Nothing is rendered: no node, no edge instance, no listener.
NothingRendered ==
    /\ nodeRender = <<>>
    /\ edge = <<>>
    /\ hovered = FALSE
    /\ focused = FALSE
    /\ cleanup = <<>>
    /\ dom = [ el \in Elements |-> [ tabindex |-> HostTabIndex[el], listeners |-> {} ] ]
    /\ lastRef = << "none", "" >>

InitTree ==
    /\ IsNetwork(network, MaxDevices, DevicePool, TreeConnectionPool, BOOLEAN)
    /\ tree = <<>>
    /\ counts = <<>>
    /\ stats = <<>>
    /\ NothingRendered
    /\ NoRequests
    /\ AdminClosed

\* const tree = { data: toTree(network), ... }
EvalTree ==
    /\ tree = <<>>
    /\ tree' = << toTree(network) >>
    /\ UNCHANGED <<network, counts, stats, nodeRender, edgeVars, siteVars>>

\* const stats = typeSafeObjectEntries(toCounts(network)).filter(...)
EvalStats ==
    /\ stats = <<>>
    /\ counts' = << toCounts(network) >>
    /\ stats' = << StatsOf(toCounts(network)) >>
    /\ UNCHANGED <<network, tree, nodeRender, edgeVars, siteVars>>

NextTree == EvalTree \/ EvalStats

SpecTree == InitTree /\ [][NextTree]_vars

----------------------------------------------------------------------------
(* Rendering the nodes *)

\* The module is evaluated: tree.data, the counts and the stats are set.
\* The module is evaluated as a whole before anything is rendered: first
\* tree.data, then stats.
EvalModule ==
    /\ tree = <<>>
    /\ stats = <<>>
    /\ tree' = << toTree(network) >>
    /\ counts' = << toCounts(network) >>
    /\ stats' = << StatsOf(toCounts(network)) >>
    /\ UNCHANGED <<network, nodeRender, edgeVars, siteVars>>

NotEvaluated ==
    /\ tree = <<>>
    /\ counts = <<>>
    /\ stats = <<>>

ModuleEvaluated ==
    /\ tree # <<>>
    /\ counts # <<>>
    /\ stats # <<>>

InitNode ==
    /\ IsNetwork(network, MaxDevices, DevicePool, TreeConnectionPool, { TRUE })
    /\ NotEvaluated
    /\ NothingRendered
    /\ NoRequests
    /\ AdminClosed

\* reactflow renders the node `node` with the given isConnectable.
RenderNode(node, isConnectable) ==
    /\ ModuleEvaluated
    /\ nodeRender' = << [ id |-> node.id, data |-> node.data,
                          isConnectable |-> isConnectable,
                          view |-> NetworkNode(node.id, node.data, isConnectable,
                                               FlowEdges(tree[1])) ] >>
    /\ UNCHANGED <<moduleVars, edgeVars, siteVars>>

NextNode ==
    \/ EvalModule
    \/ LET nodes == IF ModuleEvaluated THEN FlowNodes(tree[1]) ELSE <<>>
       IN  \E i \in 1..Len(nodes), isConnectable \in BOOLEAN :
               RenderNode(nodes[i], isConnectable)

SpecNode == InitNode /\ [][NextNode]_vars

----------------------------------------------------------------------------
(* Rendering an edge *)

\* The devices of the edge inputs: three with pairwise distinct ids (an id
\* still occurs twice in a tree that holds a device twice).
EdgeDevicePool == { d \in DevicePool : d.name # "core" }

\* An id that no node of any tree carries.
UnknownId == "removed-device"

\* The ids an edge may name as its source or target.
EndpointIds ==
    IF ~ModuleEvaluated THEN {}
    ELSE LET nodes == FlowNodes(tree[1])
         IN  { nodes[i].id : i \in 1..Len(nodes) } \cup { UnknownId }

\* The edge instance is mounted: its last render returned.
Mounted == edge # <<>> /\ edge[1].view.error = <<>>

\* An anchor <g> inserted under the element el.
AnchorUnder(el) == << [ parentElement |-> << el >> ] >>

\* The node set the flow holds is keyed by id: the networks an edge is rendered
\* over give every node an id of its own.
InitEdge ==
    /\ IsNetwork(network, MaxDevices, EdgeDevicePool, ConnectionPool, { TRUE })
    /\ NotEvaluated
    /\ LET nodes == FlowNodes(toTree(network))
       IN  \A i, j \in 1..Len(nodes) : i # j => nodes[i].id # nodes[j].id
    /\ NothingRendered
    /\ NoRequests
    /\ AdminClosed

\* The first render of an edge throws: nothing is committed.
EdgeRenderThrows(source, target) ==
    LET view == NetworkEdge(source, target, FlowNodes(tree[1]), FALSE, FALSE)
    IN  /\ edge = <<>>
        /\ view.error # <<>>
        /\ edge' = << [ source |-> source, target |-> target, view |-> view ] >>
        /\ UNCHANGED <<moduleVars, nodeRender, hovered, focused, cleanup, dom, lastRef, siteVars>>

\* The instance whose render threw is discarded.
EdgeDiscard ==
    /\ edge # <<>>
    /\ ~Mounted
    /\ edge' = <<>>
    /\ UNCHANGED <<moduleVars, nodeRender, hovered, focused, cleanup, dom, lastRef, siteVars>>

\* The first render of an edge returns and is committed: the ref callback is
\* called with the anchor, inserted under el.
EdgeMount(source, target, el) ==
    LET view == NetworkEdge(source, target, FlowNodes(tree[1]), FALSE, FALSE)
        ref == RefCallback(AnchorUnder(el), cleanup, dom)
    IN  /\ edge = <<>>
        /\ view.error = <<>>
        /\ edge' = << [ source |-> source, target |-> target, view |-> view ] >>
        /\ hovered' = FALSE
        /\ focused' = FALSE
        /\ cleanup' = ref.cleanup
        /\ dom' = ref.dom
        /\ lastRef' = << "created", el >>
        /\ UNCHANGED <<moduleVars, nodeRender, siteVars>>

\* The ref callback is called with a new anchor, inserted under el.
RefAttach(el) ==
    LET ref == RefCallback(AnchorUnder(el), cleanup, dom)
    IN  /\ Mounted
        /\ cleanup' = ref.cleanup
        /\ dom' = ref.dom
        /\ lastRef' = << IF cleanup # <<>> THEN "replaced" ELSE "created", el >>
        /\ UNCHANGED <<moduleVars, nodeRender, edge, hovered, focused, siteVars>>

\* The ref callback is called with null: the anchor is removed.
RefDetach ==
    LET ref == RefCallback(<<>>, cleanup, dom)
    IN  /\ Mounted
        /\ cleanup # <<>>
        /\ cleanup' = ref.cleanup
        /\ dom' = ref.dom
        /\ lastRef' = << "removed", cleanup[1].parent >>
        /\ UNCHANGED <<moduleVars, nodeRender, edge, hovered, focused, siteVars>>

\* The edge is removed: the ref callback is called with null and the state of
\* the instance is discarded.
EdgeUnmount ==
    LET ref == RefCallback(<<>>, cleanup, dom)
    IN  /\ Mounted
        /\ edge' = <<>>
        /\ hovered' = FALSE
        /\ focused' = FALSE
        /\ cleanup' = ref.cleanup
        /\ dom' = ref.dom
        /\ lastRef' = IF cleanup # <<>> THEN << "removed", cleanup[1].parent >> ELSE lastRef
        /\ UNCHANGED <<moduleVars, nodeRender, siteVars>>

\* An event of the given type on the element el runs the listeners of that
\* type attached to el; the state change renders the edge again.
Dispatch(type, el) ==
    LET after == ListenerEffect(type, hovered, focused)
    IN  /\ Mounted
        /\ \E l \in dom[el].listeners : l.type = type
        /\ hovered' = after.hovered
        /\ focused' = after.focused
        /\ UNCHANGED <<moduleVars, nodeRender, cleanup, dom, lastRef, siteVars>>
        /\ edge' = << [ edge[1] EXCEPT
                          !.view = NetworkEdge(edge[1].source, edge[1].target,
                                               FlowNodes(tree[1]),
                                               after.hovered, after.focused) ] >>

MouseEnter(el) == Dispatch("mouseenter", el)

MouseLeave(el) == Dispatch("mouseleave", el)

Focus(el) == Dispatch("focus", el)

Blur(el) == Dispatch("blur", el)

NextEdge ==
    \/ EvalModule
    \/ \E source, target \in EndpointIds : EdgeRenderThrows(source, target)
    \/ EdgeDiscard
    \/ \E source, target \in EndpointIds, el \in Elements : EdgeMount(source, target, el)
    \/ \E el \in Elements : RefAttach(el)
    \/ RefDetach
    \/ EdgeUnmount
    \/ \E el \in Elements : MouseEnter(el)
    \/ \E el \in Elements : MouseLeave(el)
    \/ \E el \in Elements : Focus(el)
    \/ \E el \in Elements : Blur(el)

SpecEdge == InitEdge /\ [][NextEdge]_vars

----------------------------------------------------------------------------
(* app/live/youtube/chat/route.ts: GET *)

\* The ids of the videos the channel may be live with.
VideoIds == { "dQw4w9WgXcQ", "jfKfPfyJRdk" }

\* What new Date().toISOString() may give.
Instants == { "2024-05-01T10:00:00.000Z", "2024-05-01T10:05:00.000Z" }

\* How a call of fetchYouTubeLive may end: it throws, or it resolves with no
\* video or with a video.
LookupOutcomes ==
    { [ kind |-> "throws", video |-> <<>> ], [ kind |-> "resolves", video |-> <<>> ] }
      \cup { [ kind |-> "resolves", video |-> << [ id |-> v ] >> ] : v \in VideoIds }

NoHeaders ==
    [ Location |-> <<>>, Refresh |-> <<>>, CacheControl |-> <<>>, GeneratedAt |-> <<>> ]

\* new Response(body, { status, headers })
Response(body, status, headers) ==
    [ body |-> body, status |-> status, headers |-> headers ]

\* `https://www.youtube.com/live_chat?is_popout=1&v=${video.id}`
ChatLink(video) == "https://www.youtube.com/live_chat?is_popout=1&v=" \o video.id

\* No lookup result counts as missing.
MissingVideoNever(video) == FALSE

\* !video
MissingVideo(video) == video = <<>>

\* The try block after the await: it returns a response or throws.
TryBlock(outcome, now) ==
    IF outcome.kind = "throws" THEN [ thrown |-> TRUE, response |-> <<>> ]
    ELSE IF MissingVideo(outcome.video)
    THEN [ thrown |-> FALSE,
           response |-> << Response("No live video found", 404, NoHeaders) >> ]
    \* video.id of an undefined video
    ELSE IF outcome.video = <<>> THEN [ thrown |-> TRUE, response |-> <<>> ]
    ELSE LET link == ChatLink(outcome.video[1])
         IN  [ thrown |-> FALSE,
               response |-> << Response(link, 302,
                                 [ Location     |-> << link >>,
                                   Refresh      |-> << "0;url=" \o link >>,
                                   CacheControl |-> << "max-age=300, s-maxage=300, must-revalidate" >>,
                                   GeneratedAt  |-> << now >> ]) >> ]

\* What GET returns once the lookup has settled: the response of the try
\* block, or the response of the catch block.
GET(outcome, now) ==
    LET body == TryBlock(outcome, now)
    IN  IF body.thrown
        THEN Response("YouTube data not available", 500, NoHeaders)
        ELSE body.response[1]

InitRoute ==
    /\ network = <<>>
    /\ NotEvaluated
    /\ NothingRendered
    /\ NoRequests
    /\ AdminClosed

\* The request r arrives: GET runs up to the await of fetchYouTubeLive.
GetCalled(r) ==
    /\ calls[r].pc = "idle"
    /\ calls' = [ calls EXCEPT ![r].pc = "awaiting" ]
    /\ UNCHANGED <<diagramVars, adminVars>>

\* The lookup of the request r settles and GET returns.
LookupSettles(r, outcome, now) ==
    /\ calls[r].pc = "awaiting"
    /\ calls' = [ calls EXCEPT ![r] = [ pc       |-> "returned",
                                        outcome  |-> << outcome >>,
                                        response |-> << GET(outcome, now) >> ] ]
    /\ UNCHANGED <<diagramVars, adminVars>>

NextRoute ==
    \/ \E r \in Requests : GetCalled(r)
    \/ \E r \in Requests, outcome \in LookupOutcomes, now \in Instants :
           LookupSettles(r, outcome, now)

SpecRoute == InitRoute /\ [][NextRoute]_vars

----------------------------------------------------------------------------
(* ChannelConfig: the Twitch channel list of the admin panel *)

ChannelIds == { "1001", "1002" }

\* The messages a failed deleteChannel may carry.
ErrorMessages == { "", "UNAUTHORIZED" }

\* channels.refetch()
Refetch(query) == [ query EXCEPT !.fetching = TRUE ]

\* The rows rendered: channels.isSuccess && channels.data?.length, one row
\* per channel of the data.
Rows ==
    IF channels.status = "success" /\ channels.data # <<>>
    THEN channels.data[1] ELSE {}

\* onSettled runs only after a success.
DeleteCallbacksRefetchOnSuccess(failure, message, query) ==
    [ errorMessage |-> IF failure # <<>> THEN << failure[1] >> ELSE message,
      query        |-> IF failure # <<>> THEN query ELSE Refetch(query),
      refetched    |-> failure = <<>> ]

\* The callbacks of the deleteChannel mutation once it settles, failure being
\* <<>> or the message of the error: onError: (error) => onError(error.message)
\* then onSettled: () => onUpdate().
DeleteCallbacks(failure, message, query) ==
    [ errorMessage |-> IF failure # <<>> THEN << failure[1] >> ELSE message,
      query        |-> Refetch(query),
      refetched    |-> TRUE ]

InitAdmin ==
    /\ network = <<>>
    /\ NotEvaluated
    /\ NothingRendered
    /\ NoRequests
    /\ channels = [ status |-> "pending", data |-> <<>>, fetching |-> TRUE ]
    /\ server = ChannelIds
    /\ pending = [ c \in ChannelIds |-> 0 ]
    /\ started = 0
    /\ settled = 0
    /\ refetches = 0
    /\ errorMessage = <<>>

\* The getChannels query resolves with the channels of the server.
QueryResolves ==
    /\ channels.fetching
    /\ channels' = [ status |-> "success", data |-> << server >>, fetching |-> FALSE ]
    /\ UNCHANGED <<diagramVars, routeVars, server, pending, started, settled,
                   refetches, errorMessage>>

\* The getChannels query fails; the data of an earlier success is kept.
QueryFails ==
    /\ channels.fetching
    /\ channels' = [ channels EXCEPT !.status = "error", !.fetching = FALSE ]
    /\ UNCHANGED <<diagramVars, routeVars, server, pending, started, settled,
                   refetches, errorMessage>>

\* The Delete button of the row of channel c is clicked and confirmed:
\* deleteMutation.mutate(channel.channelId).
Delete(c) ==
    /\ c \in Rows
    /\ started < MaxDeletes
    /\ pending' = [ pending EXCEPT ![c] = @ + 1 ]
    /\ started' = started + 1
    /\ UNCHANGED <<diagramVars, routeVars, channels, server, settled, refetches,
                   errorMessage>>

\* A deleteChannel mutation settles, with failure = <<>> on success and the
\* message of the error otherwise.
DeleteSettles(c, failure) ==
    LET after == DeleteCallbacks(failure, errorMessage, channels)
    IN  /\ pending[c] > 0
        /\ pending' = [ pending EXCEPT ![c] = @ - 1 ]
        /\ settled' = settled + 1
        /\ server' = IF failure = <<>> THEN server \ { c } ELSE server
        /\ errorMessage' = after.errorMessage
        /\ channels' = after.query
        /\ refetches' = IF after.refetched THEN refetches + 1 ELSE refetches
        /\ UNCHANGED <<diagramVars, routeVars, started>>

DeleteSucceeds(c) == DeleteSettles(c, <<>>)

DeleteFails(c, message) == DeleteSettles(c, << message >>)

\* closeModal={() => setErrorMessage(null)} of the dialog, which is rendered
\* while errorMessage is truthy.
CloseModal ==
    /\ Truthy(errorMessage)
    /\ errorMessage' = <<>>
    /\ UNCHANGED <<diagramVars, routeVars, channels, server, pending, started,
                   settled, refetches>>

NextAdmin ==
    \/ QueryResolves
    \/ QueryFails
    \/ \E c \in ChannelIds : Delete(c)
    \/ \E c \in ChannelIds : DeleteSucceeds(c)
    \/ \E c \in ChannelIds, message \in ErrorMessages : DeleteFails(c, message)
    \/ CloseModal

SpecAdmin == InitAdmin /\ [][NextAdmin]_vars

----------------------------------------------------------------------------
(* Measures of the input and of the output, used by the properties *)

\* Every device of a device tree, depth first, parents before children.
RECURSIVE AllDevices(_)
AllDevices(items) ==
    IF items = <<>> THEN <<>>
    ELSE << Head(items) >>
         \o (IF HasLinks(Head(items)) THEN AllDevices(Head(items).links[1]) ELSE <<>>)
         \o AllDevices(Tail(items))

\* The number of nesting levels of a device tree (0 for the empty list).
RECURSIVE Depth(_)
Depth(items) ==
    IF items = <<>> THEN 0
    ELSE LET h == Head(items)
             below == IF HasLinks(h) THEN 1 + Depth(h.links[1]) ELSE 1
             beside == Depth(Tail(items))
         IN  IF below > beside THEN below ELSE beside

\* The number of devices of type t anywhere in a device tree.
DevicesOfType(items, t) ==
    LET all == AllDevices(items)
    IN  Cardinality({ i \in 1..Len(all) : all[i].type = t })

IdsUnique(nodes) ==
    LET all == AllNodes(nodes)
    IN  \A i, j \in 1..Len(all) : i # j => all[i].id # all[j].id

SlugsDistinct(items) ==
    LET all == AllDevices(items)
    IN  \A i, j \in 1..Len(all) :
            i # j => convertToSlug(all[i].name, all[i].type)
                        # convertToSlug(all[j].name, all[j].type)

\* A device of type t and nothing else, with the given optional links.
Plain(t, links) ==
    [ name |-> "", type |-> t, model |-> "", url |-> <<>>,
      connection |-> <<>>, links |-> links ]

\* The types of the devices of a tree, sorted in the order of NodeTypeKeys:
\* two trees hold the same multiset of types exactly when these agree.
RECURSIVE SortedTypesFrom(_, _)
SortedTypesFrom(items, k) ==
    IF k > Len(NodeTypeKeys) THEN <<>>
    ELSE [ i \in 1..DevicesOfType(items, NodeTypeKeys[k]) |-> NodeTypeKeys[k] ]
         \o SortedTypesFrom(items, k + 1)

SortedTypes(items) == SortedTypesFrom(items, 1)

\* The devices of the given types all as roots.
FlatForm(types) == [ i \in 1..Len(types) |-> Plain(types[i], <<>>) ]

\* The devices of the given types as one chain: each the only child of the
\* one before it.
RECURSIVE ChainForm(_)
ChainForm(types) ==
    IF types = <<>> THEN <<>>
    ELSE << Plain(Head(types),
                  IF Tail(types) = <<>> THEN <<>> ELSE << ChainForm(Tail(types)) >>) >>

----------------------------------------------------------------------------
(* Properties of toTree and toCounts, under SpecTree *)

\* C1: the output of toTree has as many nodes (every returned node and every
\* node reachable through children) as the input has devices.
C1_NodeCountEqualsDeviceCount ==
    tree # <<>> => Len(AllNodes(tree[1])) = Len(AllDevices(network))

C1_Witness ==
    /\ tree # <<>>
    /\ Len(AllDevices(network)) = MaxDevices
    /\ Depth(network) >= 2
    /\ Len(AllNodes(tree[1])) = MaxDevices

\* C2 as stated: for every device tree the node ids toTree produces are
\* pairwise distinct at every depth.
C2_IdsUniqueForEveryTree ==
    tree # <<>> => IdsUnique(tree[1])

\* C2 amended: when the slugs of the `name-type` of the devices of the input
\* are pairwise distinct, the node ids toTree produces are pairwise distinct.
C2_IdsUniqueWhenSlugsDistinct ==
    (tree # <<>> /\ SlugsDistinct(network)) => IdsUnique(tree[1])

C2_Witness ==
    /\ tree # <<>>
    /\ Len(AllDevices(network)) = MaxDevices
    /\ Depth(network) >= 2
    /\ SlugsDistinct(network)
    /\ IdsUnique(tree[1])

\* The example of C3: one root switch whose links are two cameras.
IsSwitchWithTwoCameras(items) ==
    /\ Len(items) = 1
    /\ items[1].type = "switch"
    /\ HasLinks(items[1])
    /\ Len(items[1].links[1]) = 2
    /\ \A i \in 1..2 : /\ items[1].links[1][i].type = "camera"
                        /\ AllDevices(<< items[1].links[1][i] >>)
                              = << items[1].links[1][i] >>

\* C3: the stats summary holds the pair (t, n) exactly when t is flagged stats
\* in nodeTypes and n > 0 is the number of devices of type t in the tree; the
\* empty list gives the empty summary, a switch with two nested cameras gives
\* {switch: 1, camera: 2}.
C3_StatsAreTheFlaggedNonZeroCounts ==
    stats # <<>> =>
        LET s == stats[1]
            pairs == { s[i] : i \in 1..Len(s) }
        IN  /\ \A p \in pairs :
                  /\ nodeTypes[p[1]].stats
                  /\ p[2] > 0
                  /\ p[2] = DevicesOfType(network, p[1])
            /\ \A t \in NodeTypeSet :
                  (nodeTypes[t].stats /\ DevicesOfType(network, t) > 0)
                      => << t, DevicesOfType(network, t) >> \in pairs
            /\ Cardinality(pairs) = Len(s)
            /\ (network = <<>> => s = <<>>)
            /\ (IsSwitchWithTwoCameras(network)
                  => pairs = { << "switch", 1 >>, << "camera", 2 >> })

C3_Witness ==
    /\ stats # <<>>
    /\ IsSwitchWithTwoCameras(network)
    /\ stats[1] = << << "switch", 1 >>, << "camera", 2 >> >>

\* C4: toCounts depends only on the multiset of device types, not on the depth
\* at which the devices sit: the counts of a tree equal the counts of the same
\* types placed all as roots and placed as one chain of children.
C4_CountsInvariantToDepth ==
    counts # <<>> =>
        /\ counts[1] = toCounts(FlatForm(SortedTypes(network)))
        /\ counts[1] = toCounts(ChainForm(SortedTypes(network)))

C4_Witness ==
    /\ counts # <<>>
    /\ Depth(network) = 2
    /\ Len(AllDevices(network)) = MaxDevices
    /\ Depth(ChainForm(SortedTypes(network))) = MaxDevices
    /\ counts[1] = toCounts(ChainForm(SortedTypes(network)))

\* The place of a device type in the declaration order of nodeTypes.
DeclaredAt(t) == CHOOSE k \in 1..Len(NodeTypeKeys) : NodeTypeKeys[k] = t

Reversed(seq) == [ i \in 1..Len(seq) |-> seq[Len(seq) + 1 - i] ]

\* The types of the devices of a tree in the order the walk of toCounts
\* first meets them.
DiscoveryOrder(items) ==
    LET all == AllDevices(items)
        First(i) == \A j \in 1..(i - 1) : all[j].type # all[i].type
        firsts == SelectSeq([ i \in 1..Len(all) |-> i ], First)
    IN  [ k \in 1..Len(firsts) |-> all[firsts[k]].type ]

\* C12: the pairs of the stats summary stand in the declaration order of the
\* device types in nodeTypes, whatever the order in which the walk meets the
\* types: a tree with the same per-type counts met in the opposite order gives
\* the same sequence of pairs.
C12_StatsInDeclarationOrder ==
    stats # <<>> =>
        LET s == stats[1]
            c == counts[1]
        IN  /\ \A i, j \in 1..Len(s) : i < j => DeclaredAt(s[i][1]) < DeclaredAt(s[j][1])
            /\ [ i \in 1..Len(c) |-> c[i][1] ] = NodeTypeKeys
            /\ s = StatsOf(toCounts(FlatForm(Reversed(SortedTypes(network)))))
            /\ s = StatsOf(toCounts(ChainForm(Reversed(SortedTypes(network)))))

\* The walk meets a camera before the switch; the summary lists the switch
\* first.
C12_Witness ==
    /\ stats # <<>>
    /\ Len(DiscoveryOrder(network)) >= 2
    /\ DiscoveryOrder(network)[1] = "camera"
    /\ \E k \in 2..Len(DiscoveryOrder(network)) : DiscoveryOrder(network)[k] = "switch"
    /\ Len(stats[1]) = 2
    /\ stats[1][1][1] = "switch"
    /\ stats[1][2][1] = "camera"

\* nodes mirrors items: as many nodes as items, the i-th node carries the
\* i-th item and its children mirror that item's links, no children where the
\* item has no links.
RECURSIVE Mirrors(_, _)
Mirrors(nodes, items) ==
    /\ Len(nodes) = Len(items)
    /\ \A i \in 1..Len(items) :
          /\ nodes[i].data.item = items[i]
          /\ IF items[i].links = <<>> THEN nodes[i].children = <<>>
             ELSE Mirrors(nodes[i].children, items[i].links[1])

\* C13: the output of toTree has the shape and the order of its input: the
\* i-th node carries the i-th item, its children are toTree of the item's links
\* in the same order, an item without links or with empty links has no
\* children; toTree applied again gives an equal output, and the input is left
\* as it was.
C13_ShapeAndOrderPreserved ==
    /\ [](tree # <<>> => /\ Mirrors(tree[1], network)
                         /\ \A i \in 1..Len(network) :
                               tree[1][i].children
                                   = IF HasLinks(network[i])
                                     THEN toTree(network[i].links[1]) ELSE <<>>
                         /\ toTree(network) = tree[1])
    /\ [][network' = network]_vars

\* A root with two different children in the tree, one without links and one
\* with empty links: the children keep their order and have no children.
C13_Witness ==
    /\ tree # <<>>
    /\ Len(network) = 1
    /\ HasLinks(network[1])
    /\ Len(network[1].links[1]) = 2
    /\ network[1].links[1][1].type # network[1].links[1][2].type
    /\ network[1].links[1][1].links = <<>>
    /\ network[1].links[1][2].links = << <<>> >>
    /\ Len(tree[1][1].children) = 2
    /\ tree[1][1].children[1].data.item = network[1].links[1][1]
    /\ tree[1][1].children[2].children = <<>>

----------------------------------------------------------------------------
(* Properties of NetworkNode, under SpecNode *)

\* C10: NetworkNode renders a hyperlink element with href = url,
\* target = "_blank" and rel = "noopener noreferrer" exactly when the device
\* has a non-empty url; otherwise a div carrying none of the three.
C10_LinkIffUrl ==
    nodeRender # <<>> =>
        LET url == nodeRender[1].data.item.url
            v == nodeRender[1].view
        IN  IF url # <<>> /\ url # << "" >>
            THEN /\ v.element = "a"
                 /\ v.href = url
                 /\ v.target = << "_blank" >>
                 /\ v.rel = << "noopener noreferrer" >>
            ELSE /\ v.element = "div"
                 /\ v.href = <<>>
                 /\ v.target = <<>>
                 /\ v.rel = <<>>

C10_Witness ==
    /\ nodeRender # <<>>
    /\ nodeRender[1].data.item.url = << "https://mikrotik.com/product/crs328" >>
    /\ nodeRender[1].view.element = "a"
    /\ nodeRender[1].view.href = << "https://mikrotik.com/product/crs328" >>
    /\ nodeRender[1].view.rel = << "noopener noreferrer" >>

\* C11: the scan of NetworkNode finds a target edge exactly when some edge of
\* the edge set has target = id and a source edge exactly when some edge has
\* source = id; the target handle is rendered iff a target edge exists or
\* isConnectable, the source handle iff a source edge exists or isConnectable.
C11_ScanFindsEdgesAndHandles ==
    nodeRender # <<>> =>
        LET r == nodeRender[1]
            edges == FlowEdges(tree[1])
            hasTarget == \E k \in 1..Len(edges) : edges[k].target = r.id
            hasSource == \E k \in 1..Len(edges) : edges[k].source = r.id
            found == ScanEdges(edges, 1, r.id, <<>>, <<>>)
        IN  /\ (found.targetEdge # <<>>) = hasTarget
            /\ (found.sourceEdge # <<>>) = hasSource
            /\ found.targetEdge # <<>> => found.targetEdge[1].target = r.id
            /\ found.sourceEdge # <<>> => found.sourceEdge[1].source = r.id
            /\ r.view.targetHandle = (hasTarget \/ r.isConnectable)
            /\ r.view.sourceHandle = (hasSource \/ r.isConnectable)

\* A node that is not connectable, whose incoming edge comes first and whose
\* outgoing edge comes last in a longer edge list: both handles are rendered.
C11_Witness ==
    /\ nodeRender # <<>>
    /\ ~nodeRender[1].isConnectable
    /\ LET edges == FlowEdges(tree[1])
       IN  /\ Len(edges) >= 2
           /\ edges[1].target = nodeRender[1].id
           /\ edges[1].source # nodeRender[1].id
           /\ edges[Len(edges)].source = nodeRender[1].id
    /\ nodeRender[1].view.targetHandle
    /\ nodeRender[1].view.sourceHandle

----------------------------------------------------------------------------
(* Properties of NetworkEdge, under SpecEdge *)

\* The label is displayed and the edge is at full opacity.
EdgeActive ==
    /\ Mounted
    /\ edge[1].view.rendered[1].label # <<>>
    /\ ~edge[1].view.rendered[1].dimmed

\* No label is displayed and the edge is at reduced opacity.
EdgeIdle ==
    /\ Mounted
    /\ edge[1].view.rendered[1].label = <<>>
    /\ edge[1].view.rendered[1].dimmed

C5_ActiveIffHoveredOrFocused ==
    Mounted => IF hovered \/ focused THEN EdgeActive ELSE EdgeIdle

\* The step is the dispatch of an event of the given type on some element.
IsDispatch(type) == \E el \in Elements : Dispatch(type, el)

C5_Events ==
    (Mounted /\ Mounted') =>
        LET enter == IsDispatch("mouseenter")
            leave == IsDispatch("mouseleave")
            focus == IsDispatch("focus")
            blur  == IsDispatch("blur")
        IN  /\ hovered' # hovered => enter \/ leave
            /\ focused' # focused => focus \/ blur
            /\ enter => EdgeActive'
            /\ (leave /\ ~focused) => EdgeIdle'
            /\ focus => EdgeActive'
            /\ (blur /\ ~hovered) => EdgeIdle'

\* C5: a mounted edge is active exactly when hovered or focused; hovered
\* changes only by mouseenter and mouseleave, focused only by focus and blur;
\* mouseenter gives active, mouseleave without focus gives idle, focus gives
\* active.
C5_HoverFocusStateMachine ==
    /\ []C5_ActiveIffHoveredOrFocused
    /\ [][C5_Events]_vars

\* Idle after the pointer left, active again by focus alone.
C5_Witness ==
    /\ Mounted
    /\ ~hovered
    /\ focused
    /\ EdgeActive
    /\ \E l \in dom[cleanup[1].parent].listeners : l.type = "mouseleave"

\* The first device of the tree whose id is the given one.
DeviceWithId(id) ==
    LET all == AllDevices(network)
        at == CHOOSE i \in 1..Len(all) :
                /\ convertToSlug(all[i].name, all[i].type) = id
                /\ \A j \in 1..(i - 1) : convertToSlug(all[j].name, all[j].type) # id
    IN  all[at]

\* C6: a mounted edge whose target has connection type c has the stroke color
\* and the dash of edgeTypes[c]; its label is displayed exactly while it is
\* active and then reads edgeTypes[c].name; it is dimmed exactly while idle.
C6_StyledByTargetConnection ==
    (Mounted /\ DeviceWithId(edge[1].target).connection # <<>>) =>
        LET c == DeviceWithId(edge[1].target).connection[1].type
            v == edge[1].view.rendered[1]
        IN  /\ v.stroke = edgeTypes[c].stroke.color
            /\ v.dash = edgeTypes[c].stroke.dash
            /\ (v.label # <<>>) = (hovered \/ focused)
            /\ v.label # <<>> => v.label = << edgeTypes[c].name >>
            /\ v.dimmed = ~(hovered \/ focused)
            /\ c = "fiber" => /\ v.dash = << "8 8" >>
                              /\ v.label \in { <<>>, << "Fiber" >> }

\* A fiber target below an ethernet source, hovered: the label reads Fiber.
C6_Witness ==
    /\ Mounted
    /\ edge[1].source # edge[1].target
    /\ DeviceWithId(edge[1].target).connection = << [ type |-> "fiber" ] >>
    /\ DeviceWithId(edge[1].source).connection = << [ type |-> "ethernet" ] >>
    /\ hovered
    /\ edge[1].view.rendered[1].label = << "Fiber" >>
    /\ edge[1].view.rendered[1].dash = << "8 8" >>

\* C7: the listeners attached anywhere are exactly the four listeners of the
\* current anchor, on its parent; no listener of an earlier anchor is left,
\* and none at all once the edge is removed.
C7_ListenersOfCurrentAnchorOnly ==
    /\ \A el \in Elements :
          dom[el].listeners =
              IF cleanup # <<>> /\ cleanup[1].parent = el
              THEN Listeners(cleanup[1].closure)
              ELSE {}
    /\ ~Mounted => cleanup = <<>>

\* The anchor under e1 was replaced by one under e2.
C7_Witness ==
    /\ Mounted
    /\ lastRef = << "replaced", "e2" >>
    /\ dom["e1"].listeners = {}
    /\ Cardinality(dom["e2"].listeners) = 4

\* C8: a tabindex the host gave is never changed; an element without one has
\* tabindex "-1" exactly while it is the parent of the current anchor.
C8_TabIndexGrantIsScoped ==
    \A el \in Elements :
        LET anchored == cleanup # <<>> /\ cleanup[1].parent = el
        IN  /\ HostTabIndex[el] # <<>> => dom[el].tabindex = HostTabIndex[el]
            /\ ~anchored => dom[el].tabindex = HostTabIndex[el]
            /\ anchored => /\ dom[el].tabindex # <<>>
                            /\ cleanup[1].setTabIndex = (HostTabIndex[el] = <<>>)
                            /\ cleanup[1].setTabIndex => dom[el].tabindex = << "-1" >>

\* Mounted under e1, which had no tabindex, and removed again.
C8_Witness ==
    /\ edge = <<>>
    /\ lastRef = << "removed", "e1" >>
    /\ dom["e1"].tabindex = <<>>
    /\ dom["e2"].tabindex = << "0" >>

\* The ids of the devices of the tree.
DeviceIds ==
    LET all == AllDevices(network)
    IN  { convertToSlug(all[i].name, all[i].type) : i \in 1..Len(all) }

\* C9: an edge whose source or target is the id of no node throws "Missing
\* source or target" and renders nothing; with both endpoints present that
\* error is not raised.
C9_MissingEndpointThrows ==
    edge # <<>> =>
        LET ids == DeviceIds
        IN
        IF edge[1].source \notin ids \/ edge[1].target \notin ids
        THEN /\ edge[1].view.error = << "Missing source or target" >>
             /\ edge[1].view.rendered = <<>>
        ELSE edge[1].view.error # << "Missing source or target" >>

\* The source is a node, the target is not.
C9_Witness ==
    /\ edge # <<>>
    /\ edge[1].source \in DeviceIds
    /\ edge[1].target = UnknownId
    /\ edge[1].view.error = << "Missing source or target" >>

EdgeTypeSet == DOMAIN edgeTypes

\* C14 as stated: an edge whose target is a node without a connection throws
\* "Invalid target".
C14_InvalidTargetWheneverTargetBare ==
    (edge # <<>> /\ edge[1].target \in DeviceIds
                 /\ DeviceWithId(edge[1].target).connection = <<>>)
        => edge[1].view.error = << "Invalid target" >>

\* C14 amended: an edge whose source and target are both nodes and whose
\* target carries no connection throws "Invalid target" and renders nothing,
\* and only such an edge does; every edge that renders has a target whose
\* connection type is a key of edgeTypes.
C14_InvalidTargetThrows ==
    edge # <<>> =>
        LET ids == DeviceIds
            bothFound == edge[1].source \in ids /\ edge[1].target \in ids
        IN  /\ (bothFound /\ DeviceWithId(edge[1].target).connection = <<>>)
                  => /\ edge[1].view.error = << "Invalid target" >>
                     /\ edge[1].view.rendered = <<>>
            /\ edge[1].view.error = << "Invalid target" >>
                  => /\ bothFound
                     /\ DeviceWithId(edge[1].target).connection = <<>>
            /\ edge[1].view.error \in { <<>>, << "Invalid target" >>,
                                        << "Missing source or target" >> }
            /\ edge[1].view.error = <<>>
                  => /\ edge[1].target \in ids
                     /\ DeviceWithId(edge[1].target).connection # <<>>
                     /\ DeviceWithId(edge[1].target).connection[1].type \in EdgeTypeSet

\* A nested source and a root target.
C14_Witness ==
    /\ edge # <<>>
    /\ edge[1].source \in DeviceIds
    /\ edge[1].source # edge[1].target
    /\ DeviceWithId(edge[1].source).connection # <<>>
    /\ edge[1].target \in DeviceIds
    /\ DeviceWithId(edge[1].target).connection = <<>>
    /\ edge[1].view.error = << "Invalid target" >>
    /\ edge[1].view.rendered = <<>>

----------------------------------------------------------------------------
(* Properties of the live-chat route, under SpecRoute *)

\* C15: every GET that has returned gave exactly one of three responses: 404
\* when the lookup resolved with no video, 302 with the pop-out chat link of
\* the found video's id as Location and as body when it resolved with a
\* video, 500 when the lookup threw; no call ends any other way, and no
\* redirect lacks a video id.
C15_ExactlyOneOfThreeResponses ==
    \A r \in Requests :
        /\ calls[r].pc \in { "idle", "awaiting", "returned" }
        /\ calls[r].pc # "returned" => calls[r].response = <<>>
        /\ calls[r].pc = "returned" =>
              LET outcome == calls[r].outcome[1]
                  response == calls[r].response[1]
              IN  /\ response.status \in { 404, 302, 500 }
                  /\ (response.status = 404)
                        = (outcome.kind = "resolves" /\ outcome.video = <<>>)
                  /\ (response.status = 302)
                        = (outcome.kind = "resolves" /\ outcome.video # <<>>)
                  /\ (response.status = 500) = (outcome.kind = "throws")
                  /\ response.status = 302 =>
                        /\ outcome.video[1].id # ""
                        /\ response.body
                              = "https://www.youtube.com/live_chat?is_popout=1&v="
                                  \o outcome.video[1].id
                        /\ response.headers.Location = << response.body >>
                  /\ response.status # 302 => response.headers.Location = <<>>

\* One request was redirected to the chat of a video, one found no video and
\* one met a failing lookup.
C15_Witness ==
    \E r1, r2, r3 \in Requests :
        /\ calls[r1].pc = "returned"
        /\ calls[r1].response[1].status = 302
        /\ calls[r1].response[1].headers.Location
              = << "https://www.youtube.com/live_chat?is_popout=1&v=jfKfPfyJRdk" >>
        /\ calls[r2].pc = "returned"
        /\ calls[r2].outcome[1] = [ kind |-> "resolves", video |-> <<>> ]
        /\ calls[r2].response[1].status = 404
        /\ calls[r3].pc = "returned"
        /\ calls[r3].outcome[1].kind = "throws"
        /\ calls[r3].response[1].status = 500

----------------------------------------------------------------------------
(* Properties of ChannelConfig, under SpecAdmin *)

C16_Steps ==
    /\ settled' # settled =>
          /\ refetches' = refetches + 1
          /\ channels'.fetching
    /\ errorMessage' # errorMessage =>
          \/ \E c \in ChannelIds, message \in ErrorMessages :
                /\ DeleteFails(c, message)
                /\ errorMessage' = << message >>
          \/ /\ CloseModal
             /\ errorMessage' = <<>>
    /\ (errorMessage # <<>> /\ ~CloseModal) => errorMessage' # <<>>
    /\ (\E c \in ChannelIds : DeleteSucceeds(c)) => errorMessage' = errorMessage
    /\ (\E c \in ChannelIds, message \in ErrorMessages : DeleteFails(c, message))
          => errorMessage' # <<>>

\* C16: every deleteChannel mutation that settles, failed or not, calls
\* channels.refetch(); errorMessage becomes non-null only by a failed delete,
\* as the message of its error, stays non-null until the dialog is closed,
\* and is left as it is by a successful delete.
C16_SettledDeleteRefetches ==
    /\ [](refetches = settled)
    /\ [][C16_Steps]_vars

\* A delete has succeeded and another has failed: two refetches, the message
\* of the failure displayed.
C16_Witness ==
    /\ server # ChannelIds
    /\ settled = 2
    /\ refetches = 2
    /\ errorMessage = << "UNAUTHORIZED" >>
    /\ channels.fetching

====
